---- MODULE Spec2Model ----
(***************************************************************************)
(* A model of mayapy_launcher (src/mayapy_launcher/__init__.py): the       *)
(* Version value type, the nearest-match resolver pyver_to_mayaver, the    *)
(* ancestor walk parent_dirs, the probe chains of resolve_version and the  *)
(* launcher main.                                                          *)
(*                                                                         *)
(* A Python string is a sequence of one-character strings; an Optional     *)
(* value is the empty sequence (None) or a one-element sequence; a call    *)
(* that may raise yields a record [exc, val].                              *)
(***************************************************************************)
EXTENDS Integers, Sequences, FiniteSets, TLC

\* ------------------------------------------------------------------------
\* Bounds of the model
\* ------------------------------------------------------------------------
MaxLen == 5          \* longest version string handed to Version.parse
MaxMajor == 4        \* largest major of a Version handed to pyver_to_mayaver
MaxMinor == 9        \* largest minor
MaxPatch == 11       \* largest patch
MaxDepth == 1        \* deepest current directory below the filesystem root
MaxParts == 2        \* most components of a path handed to parent_dirs

\* ------------------------------------------------------------------------
\* Python values
\* ------------------------------------------------------------------------
None == <<>>
Some(x) == <<x>>
Return(x) == [exc |-> "none", val |-> x]
Raise(e) == [exc |-> e, val |-> None]

DigitChars == <<"0", "1", "2", "3", "4", "5", "6", "7", "8", "9">>
Digits == {DigitChars[i] : i \in 1..10}
DigitVal(c) == (CHOOSE i \in 1..10 : DigitChars[i] = c) - 1

\* str(int): the decimal rendering used by the f-string of Version.__str__
RECURSIVE NatToStr(_)
NatToStr(n) ==
    IF n < 10 THEN <<DigitChars[n + 1]>>
    ELSE NatToStr(n \div 10) \o <<DigitChars[(n % 10) + 1]>>

IntToStr(n) == IF n < 0 THEN <<"-">> \o NatToStr(0 - n) ELSE NatToStr(n)

\* the value of a run of decimal digits
RECURSIVE DigitsToNat(_)
DigitsToNat(ds) ==
    IF ds = <<>> THEN 0
    ELSE 10 * DigitsToNat(SubSeq(ds, 1, Len(ds) - 1)) + DigitVal(ds[Len(ds)])

\* int(text): surrounding blanks stripped, an optional sign, then digits
\* that single underscores may separate
RECURSIVE Strip(_)
Strip(s) ==
    IF s = <<>> THEN s
    ELSE IF s[1] = " " THEN Strip(Tail(s))
    ELSE IF s[Len(s)] = " " THEN Strip(SubSeq(s, 1, Len(s) - 1))
    ELSE s

IntBodyOk(b) ==
    /\ b # <<>>
    /\ \A i \in 1..Len(b) : b[i] \in Digits \/ b[i] = "_"
    /\ b[1] # "_"
    /\ b[Len(b)] # "_"
    /\ \A i \in 1..(Len(b) - 1) : ~(b[i] = "_" /\ b[i + 1] = "_")

RECURSIVE DropUnderscores(_)
DropUnderscores(b) ==
    IF b = <<>> THEN b
    ELSE IF b[1] = "_" THEN DropUnderscores(Tail(b))
    ELSE <<b[1]>> \o DropUnderscores(Tail(b))

Signed(s) == s # <<>> /\ s[1] \in {"-", "+"}

IntOfBody(negative, body) ==
    IF ~IntBodyOk(body) THEN Raise("ValueError")
    ELSE IF negative THEN Return(0 - DigitsToNat(DropUnderscores(body)))
    ELSE Return(DigitsToNat(DropUnderscores(body)))

IntOfStripped(s) ==
    IntOfBody(Signed(s) /\ s[1] = "-", IF Signed(s) THEN Tail(s) ELSE s)

int(text) == IntOfStripped(Strip(text))

abs(n) == IF n < 0 THEN 0 - n ELSE n

\* ------------------------------------------------------------------------
\* class Version
\* ------------------------------------------------------------------------
Version(major, minor, patch) == [major |-> major, minor |-> minor, patch |-> patch]

\* dataclass(order=True): comparison of the tuples (major, minor, patch)
VersionLt(a, b) ==
    \/ a.major < b.major
    \/ a.major = b.major /\ a.minor < b.minor
    \/ a.major = b.major /\ a.minor = b.minor /\ a.patch < b.patch

Version_str(v) ==
    IntToStr(v.major) \o <<".">> \o IntToStr(v.minor) \o <<".">> \o IntToStr(v.patch)

\* the index after the longest run of digits that starts at index i
RECURSIVE DigitsEnd(_, _)
DigitsEnd(s, i) ==
    IF i <= Len(s) /\ s[i] \in Digits THEN DigitsEnd(s, i + 1) ELSE i

\* "." of the pattern: any character but a newline
AnyChar(c) == c # "\n"

\* an optional group (.(\d+))? tried at index i: it takes one character and
\* then at least one digit, or it takes nothing
GroupAt(s, i) == i + 1 <= Len(s) /\ AnyChar(s[i]) /\ s[i + 1] \in Digits

\* Version.regex.match(version_str).groupdict(), None when there is no match
regex_match(s) ==
    IF s = <<>> \/ s[1] \notin Digits THEN None
    ELSE LET e1 == DigitsEnd(s, 1)
             e2 == IF GroupAt(s, e1) THEN DigitsEnd(s, e1 + 1) ELSE e1
             e3 == IF GroupAt(s, e2) THEN DigitsEnd(s, e2 + 1) ELSE e2
         IN  Some([major |-> Some(SubSeq(s, 1, e1 - 1)),
                   minor |-> IF GroupAt(s, e1) THEN Some(SubSeq(s, e1 + 1, e2 - 1)) ELSE None,
                   patch |-> IF GroupAt(s, e2) THEN Some(SubSeq(s, e2 + 1, e3 - 1)) ELSE None])

\* int(group_dict[name]) or 0: int() of a group that did not take part in
\* the match is int(None), which raises TypeError before "or 0" is reached
GroupInt(g) == IF g = None THEN Raise("TypeError") ELSE Return(DigitsToNat(g[1]))

\* lines 53-57: the three conversions in turn, then the Version
ParseInts(major, minor, patch) ==
    IF major.exc # "none" THEN Raise(major.exc)
    ELSE IF minor.exc # "none" THEN Raise(minor.exc)
    ELSE IF patch.exc # "none" THEN Raise(patch.exc)
    ELSE Return(Some(Version(major.val, minor.val, patch.val)))

\* lines 48-57, match being the result of regex.match
ParseMatch(match) ==
    IF match = None THEN Raise("ValueError")
    ELSE ParseInts(GroupInt(match[1].major), GroupInt(match[1].minor),
                   GroupInt(match[1].patch))

Version_parse(version_str) == ParseMatch(regex_match(version_str))

Version_distance(version_a, version_b) ==
    Version(abs(version_a.major - version_b.major),
            abs(version_a.minor - version_b.minor),
            abs(version_a.patch - version_b.patch))

\* ------------------------------------------------------------------------
\* State
\* ------------------------------------------------------------------------
VARIABLES
    registry,          \* HKLM\SOFTWARE\Autodesk\Maya: what each release has there
    virtual_env,       \* whether VIRTUAL_ENV is set
    platform_version,  \* platform.python_version() of the running interpreter
    cwd,               \* the resolved current directory, as the names below the root
    argv,              \* sys.argv[1:]
    python_version_files,  \* the .python-version entries the probe found, by directory
    maya_version_files,    \* the .maya-version entries the probe found, by directory
    pc,                \* the next step of the call under study
    called,            \* the resolvers resolve_version has called, in order
    maya_version,      \* what resolve_version returned
    version,           \* the local "version" of main
    args,              \* the local "args" of main
    command,           \* the command line handed to subprocess.run
    error,             \* the exception that ended the call, "none" if none
    arg,               \* the argument of a function called on its own
    ret,               \* what that function returned, or has yielded so far
    path               \* the local "path" of the generator parent_dirs

vars == <<registry, virtual_env, platform_version, cwd, argv, python_version_files,
          maya_version_files, pc, called, maya_version, version, args, command,
          error, arg, ret, path>>

env == <<registry, virtual_env, platform_version, cwd, argv>>
mainVars == <<python_version_files, maya_version_files, called, maya_version,
              version, args, command, error>>

\* ------------------------------------------------------------------------
\* The version map and the registry
\* ------------------------------------------------------------------------
py_to_maya_map ==
    << [key |-> <<"2", ".", "7", ".", "1", "1">>, value |-> 2019],
       [key |-> <<"2", ".", "7", ".", "1", "8">>, value |-> 2020],
       [key |-> <<"3", ".", "7", ".", "9">>, value |-> 2022],
       [key |-> <<"3", ".", "9", ".", "7">>, value |-> 2023] >>

\* py_to_maya_map.get(key)
MapGet(key) ==
    IF \E i \in DOMAIN py_to_maya_map : py_to_maya_map[i].key = key
    THEN Some(py_to_maya_map[CHOOSE i \in DOMAIN py_to_maya_map :
                                py_to_maya_map[i].key = key].value)
    ELSE None

\* the releases a registry of the model may hold
Releases == {py_to_maya_map[i].value : i \in DOMAIN py_to_maya_map}

\* the subkeys of SOFTWARE\Autodesk\Maya that are integers (the list the code
\* builds is used for membership and for max only, so it is kept as a set)
installed_maya_versions == {r \in DOMAIN registry : registry[r] # "absent"}

\* the value MAYA_INSTALL_LOCATION of a release, as a path
InstallLocation(v) == <<"MAYA_INSTALL_LOCATION">> \o IntToStr(v)

maya_install_path(v) ==
    IF v \in DOMAIN registry /\ registry[v] = "install"
    THEN Some(InstallLocation(v))
    ELSE None

ensure_installed(maya) ==
    IF maya # None /\ maya[1] \in installed_maya_versions THEN maya ELSE None

SetMax(S) == CHOOSE m \in S : \A x \in S : x <= m

latest_maya_version ==
    IF installed_maya_versions = {} THEN Raise("ValueError")
    ELSE Return(Some(SetMax(installed_maya_versions)))

\* ------------------------------------------------------------------------
\* pyver_to_mayaver
\* ------------------------------------------------------------------------
\* lines 194-201: the closest key after one more key; closest is None or the
\* pair of closest_version and closest_distance
Closer(closest, mayapy_version, distance) ==
    IF closest = None
    THEN Some([version |-> mayapy_version, distance |-> distance])
    ELSE IF VersionLt(distance, closest[1].distance)
    THEN Some([version |-> mayapy_version, distance |-> distance])
    ELSE closest

\* line 191: Version.parse of each key of the map
ParsedKeys == [i \in DOMAIN py_to_maya_map |-> Version_parse(py_to_maya_map[i].key)]

\* the loop over py_to_maya_map.keys() from the i-th key on
RECURSIVE ClosestLoop(_, _, _)
RECURSIVE ClosestStep(_, _, _, _)
ClosestLoop(i, python_version, closest) ==
    IF i > Len(py_to_maya_map) THEN Return(closest)
    ELSE ClosestStep(i, python_version, closest, ParsedKeys[i])

\* lines 191-201 for the i-th key, parsed being Version.parse of it
ClosestStep(i, python_version, closest, parsed) ==
    IF parsed.exc # "none" THEN Raise(parsed.exc)
    ELSE ClosestLoop(i + 1, python_version,
                     Closer(closest, parsed.val[1],
                            Version_distance(python_version, parsed.val[1])))

\* a resolver that looks up the closest key instead of the input's own string
LookupKey_closest(python_version, closest_version) == Version_str(closest_version)

\* the key looked up once the gate has passed
LookupKey(python_version, closest_version) == Version_str(python_version)

\* lines 204-213: the gate on major and minor, the lookup, the installed check
Gate(python_version, closest_version) ==
    LET same_major == python_version.major = closest_version.major
        same_minor == python_version.minor = closest_version.minor
    IN  IF same_major /\ same_minor
        THEN Return(ensure_installed(MapGet(LookupKey(python_version, closest_version))))
        ELSE Return(None)

\* lines 203-213, loop being the outcome of the loop over the keys
AfterLoop(python_version, loop) ==
    IF loop.exc # "none" THEN Raise(loop.exc)
    ELSE IF loop.val = None THEN Return(None)
    ELSE Gate(python_version, loop.val[1].version)

pyver_to_mayaver(python_version) ==
    AfterLoop(python_version, ClosestLoop(1, python_version, None))

\* ------------------------------------------------------------------------
\* Paths and parent_dirs
\* ------------------------------------------------------------------------
\* An absolute path is the sequence of names below the filesystem root, the
\* root itself being the empty sequence.  A path as written is a record
\* [absolute, parts], its parts names, "." or "..".
DirNames == {"a", "b"}

RECURSIVE Normalise(_, _)
Normalise(base, parts) ==
    IF parts = <<>> THEN base
    ELSE IF parts[1] = "." THEN Normalise(base, Tail(parts))
    ELSE IF parts[1] = ".."
    THEN Normalise(IF base = <<>> THEN base ELSE SubSeq(base, 1, Len(base) - 1),
                   Tail(parts))
    ELSE Normalise(Append(base, parts[1]), Tail(parts))

\* Path(path).resolve()
Resolve(raw) == Normalise(IF raw.absolute THEN <<>> ELSE cwd, raw.parts)

\* path.parent
Parent(p) == IF p = <<>> THEN p ELSE SubSeq(p, 1, Len(p) - 1)

\* a walk that stops one directory early
ParentIsPath_early(p) == Len(p) <= 1

\* "path.parent is path": pathlib hands back the very same object for a path
\* that has no name below its root and a new object for every other path
ParentIsPath(p) == p = <<>>

\* everything one call of parent_dirs yields
RECURSIVE WalkFrom(_)
WalkFrom(p) == <<p>> \o (IF ParentIsPath(p) THEN <<>> ELSE WalkFrom(Parent(p)))

parent_dirs(raw) == WalkFrom(Resolve(raw))

Dot == [absolute |-> FALSE, parts |-> <<".">>]

\* ------------------------------------------------------------------------
\* The probes
\* ------------------------------------------------------------------------
NewlineAt(t) == IF \E k \in 1..Len(t) : t[k] = "\n"
                THEN CHOOSE k \in 1..Len(t) : t[k] = "\n" /\ \A j \in 1..(k - 1) : t[j] # "\n"
                ELSE 0

\* str.splitlines()
RECURSIVE splitlines(_)
splitlines(t) ==
    IF t = <<>> THEN <<>>
    ELSE IF NewlineAt(t) = 0 THEN <<t>>
    ELSE <<SubSeq(t, 1, NewlineAt(t) - 1)>> \o splitlines(SubSeq(t, NewlineAt(t) + 1, Len(t)))

\* the loop over parent_dirs(".") and over each directory's children: the
\* text of the first entry of the wanted name that is a file, None if the
\* walk ends without one
RECURSIVE FirstFile(_, _)
FirstFile(dirs, files) ==
    IF dirs = <<>> THEN None
    ELSE IF files[dirs[1]].kind = "file" THEN Some(files[dirs[1]].text)
    ELSE FirstFile(Tail(dirs), files)

py_version_from_shebang == Return(None)

py_version_from_virtualenv ==
    IF virtual_env THEN Version_parse(platform_version) ELSE Return(None)

\* lines 170-171: Version.parse(versions[0])
FirstVersion(versions) ==
    IF versions = <<>> THEN Raise("IndexError") ELSE Version_parse(versions[1])

\* lines 169-172, child being the file found, None if there is none
PythonVersionOf(child) ==
    IF child = None THEN Return(None) ELSE FirstVersion(splitlines(child[1]))

py_version_from_python_version(files) ==
    PythonVersionOf(FirstFile(parent_dirs(Dot), files))

\* the int | None a resolver returns from the outcome of int()
SomeInt(n) == IF n.exc # "none" THEN Raise(n.exc) ELSE Return(Some(n.val))

\* lines 181-182: int(versions[0])
FirstInt(versions) ==
    IF versions = <<>> THEN Raise("IndexError") ELSE SomeInt(int(versions[1]))

\* lines 180-183, child being the file found, None if there is none
MayaVersionOf(child) ==
    IF child = None THEN Return(None) ELSE FirstInt(splitlines(child[1]))

maya_version_from_maya_version(files) ==
    MayaVersionOf(FirstFile(parent_dirs(Dot), files))

\* ------------------------------------------------------------------------
\* mayapy and the command line of start_mayapy
\* ------------------------------------------------------------------------
\* lines 257-260
MayapyIn(maya_install_dir) ==
    IF maya_install_dir # None
    THEN Some(maya_install_dir[1] \o <<"/", "bin", "/", "mayapy.exe">>)
    ELSE None

mayapy(v) == MayapyIn(maya_install_path(v))

\* str() of an Optional path
PathStr(p) == IF p = None THEN <<"N", "o", "n", "e">> ELSE p[1]

\* args.insert(0, str(mayapy(version)))
CommandLine(v, a) == <<PathStr(mayapy(v))>> \o a

\* ------------------------------------------------------------------------
\* The inputs of the model
\* ------------------------------------------------------------------------
BoundedSeq(S, n) == UNION {[1..k -> S] : k \in 0..n}

\* version strings: digits, the separator and a character that is neither
Alphabet == {"1", "3", ".", "x"}
VersionStrings == BoundedSeq(Alphabet, MaxLen)

Versions == {Version(a, b, c) : a \in 0..MaxMajor, b \in 0..MaxMinor, c \in 0..MaxPatch}

RawPaths == [absolute : BOOLEAN, parts : BoundedSeq(DirNames \cup {".", ".."}, MaxParts)]
WorkingDirs == BoundedSeq(DirNames, MaxDepth)

\* registries with every release either absent or fully installed
InstallRegistries == [Releases -> {"absent", "install"}]

\* registries of the launcher runs: release 2022 absent or installed, release
\* 2023 absent, a bare key, or a key with its Setup\InstallPath
LauncherRegistries ==
    {r \in [Releases -> {"absent", "key", "install"}] :
        /\ r[2019] = "absent"
        /\ r[2020] = "absent"
        /\ r[2022] # "key"}

\* the interpreter that runs the launcher
PlatformVersions == {<<"3", ".", "9", ".", "7">>}

LauncherDirs == BoundedSeq({"a"}, MaxDepth)

\* sys.argv[1:]: nothing; an override and a script; a script first
ArgLists == { <<>>,
              << <<"-", "2", "0", "2", "3">>, <<"s.py">> >>,
              << <<"s.py">>, <<"-", "2", "0", "2", "3">> >> }

Absent == [kind |-> "absent", text |-> <<>>]
Directory == [kind |-> "dir", text |-> <<>>]
File(text) == [kind |-> "file", text |-> text]

\* what a directory may hold under the name .python-version
PythonVersionEntries ==
    { Absent, Directory,
      File(<<"3", ".", "9", ".", "7", "\n">>),
      File(<<"3", ".", "9", "\n">>),
      File(<<>>) }

\* what a directory may hold under the name .maya-version
MayaVersionEntries ==
    { Absent, Directory,
      File(<<"2", "0", "2", "3", "\n">>),
      File(<<"x">>),
      File(<<>>) }

\* the directories from the current one up to the root
Ancestors == {SubSeq(cwd, 1, k) : k \in 0..Len(cwd)}

\* the entries of a pin-file name before its probe has walked the directories
Unread == <<>>

\* ------------------------------------------------------------------------
\* resolve_version and main
\* ------------------------------------------------------------------------
\* a loop that does not return on a release
ChainAExit_continue(maya, next) == next

\* lines 229-231: a release from pyver_to_mayaver ends resolve_version
ChainAExit(maya, next) == IF maya # None THEN "main_args" ELSE next

\* a loop that does not return on a release
ChainBExit_continue(maya, next) == next

\* lines 241-242: a release from a maya-version resolver ends resolve_version
ChainBExit(maya, next) == IF maya # None THEN "main_args" ELSE next

\* lines 228-231, found being the outcome of pyver_to_mayaver
ChainAFound(found, next) ==
    IF found.exc # "none"
    THEN /\ error' = found.exc
         /\ pc' = "raised"
         /\ UNCHANGED maya_version
    ELSE /\ maya_version' = found.val
         /\ pc' = ChainAExit(found.val, next)
         /\ UNCHANGED error

\* one turn of the loop over py_version_resolvers
ChainA(name, result, next) ==
    /\ pc = name
    /\ called' = Append(called, name)
    /\ IF result.exc # "none"
       THEN /\ error' = result.exc
            /\ pc' = "raised"
            /\ UNCHANGED maya_version
       ELSE IF result.val = None
       THEN /\ pc' = next
            /\ UNCHANGED <<maya_version, error>>
       ELSE ChainAFound(pyver_to_mayaver(result.val[1]), next)
    /\ UNCHANGED <<env, version, args, command, arg, ret, path>>

\* one turn of the loop over maya_version_resolvers
ChainB(name, result, next) ==
    /\ pc = name
    /\ called' = Append(called, name)
    /\ IF result.exc # "none"
       THEN /\ error' = result.exc
            /\ pc' = "raised"
            /\ UNCHANGED maya_version
       ELSE /\ maya_version' = result.val
            /\ pc' = ChainBExit(result.val, next)
            /\ UNCHANGED error
    /\ UNCHANGED <<env, version, args, command, arg, ret, path>>

Shebang ==
    /\ ChainA("py_version_from_shebang", py_version_from_shebang,
              "py_version_from_virtualenv")
    /\ UNCHANGED <<python_version_files, maya_version_files>>

Virtualenv ==
    /\ ChainA("py_version_from_virtualenv", py_version_from_virtualenv,
              "py_version_from_python_version")
    /\ UNCHANGED <<python_version_files, maya_version_files>>

\* The file system is read-only and each pin-file name is looked at by one
\* probe only, once: what the directories hold under that name is drawn when
\* the probe walks them, and kept for the properties to refer to.
PythonVersion ==
    \E files \in [Ancestors -> PythonVersionEntries] :
        /\ python_version_files' = files
        /\ ChainA("py_version_from_python_version",
                  py_version_from_python_version(files),
                  "maya_version_from_maya_version")
        /\ UNCHANGED maya_version_files

MayaVersion ==
    \E files \in [Ancestors -> MayaVersionEntries] :
        /\ maya_version_files' = files
        /\ ChainB("maya_version_from_maya_version",
                  maya_version_from_maya_version(files),
                  "latest_maya_version")
        /\ UNCHANGED python_version_files

\* the last resolver; line 244 returns None when it has none either
Latest ==
    /\ ChainB("latest_maya_version", latest_maya_version, "main_args")
    /\ UNCHANGED <<python_version_files, maya_version_files>>

\* main, lines 274-284: the resolved version, then the override
MainArgs ==
    /\ pc = "main_args"
    /\ \E n \in {IF Len(args) > 0 THEN int(args[1]) ELSE Raise("ValueError")} :
           IF Len(args) > 0 /\ n.exc = "none"
           THEN /\ version' = Some(abs(n.val))
                /\ args' = Tail(args)
           ELSE /\ version' = maya_version
                /\ UNCHANGED args
    /\ pc' = "main_start"
    /\ UNCHANGED <<env, python_version_files, maya_version_files, called,
                   maya_version, command, error, arg, ret, path>>

\* the exit codes the child may end with: a command line whose program is
\* the text "None" names no program, and the shell reports that
ReturnCodes(v) == IF mayapy(v) = None THEN {1} ELSE {0, 1}

\* main, lines 286-289, with start_mayapy: subprocess.run(..., check=True)
MainStart ==
    /\ pc = "main_start"
    /\ IF version = None
       THEN /\ error' = "RuntimeError"
            /\ pc' = "raised"
            /\ UNCHANGED <<args, command>>
       ELSE /\ args' = CommandLine(version[1], args)
            /\ command' = Some(CommandLine(version[1], args))
            /\ \E returncode \in ReturnCodes(version[1]) :
                  IF returncode = 0
                  THEN pc' = "exited" /\ UNCHANGED error
                  ELSE pc' = "raised" /\ error' = "CalledProcessError"
    /\ UNCHANGED <<env, python_version_files, maya_version_files, called,
                   maya_version, version, arg, ret, path>>

Init ==
    /\ registry \in LauncherRegistries
    /\ virtual_env \in BOOLEAN
    /\ platform_version \in PlatformVersions
    /\ cwd \in LauncherDirs
    /\ argv \in ArgLists
    /\ python_version_files = Unread
    /\ maya_version_files = Unread
    /\ pc = "py_version_from_shebang"
    /\ called = <<>>
    /\ maya_version = None
    /\ version = None
    /\ args = argv
    /\ command = None
    /\ error = "none"
    /\ arg = None
    /\ ret = None
    /\ path = None

Next ==
    \/ Shebang
    \/ Virtualenv
    \/ PythonVersion
    \/ MayaVersion
    \/ Latest
    \/ MainArgs
    \/ MainStart

Spec == Init /\ [][Next]_vars

\* ------------------------------------------------------------------------
\* Version.parse, pyver_to_mayaver and parent_dirs called on their own
\* ------------------------------------------------------------------------
NoLauncher ==
    /\ virtual_env = FALSE
    /\ platform_version = <<>>
    /\ argv = <<>>
    /\ python_version_files = Unread
    /\ maya_version_files = Unread
    /\ called = <<>>
    /\ maya_version = None
    /\ version = None
    /\ args = <<>>
    /\ command = None
    /\ error = "none"

InitParse ==
    /\ NoLauncher
    /\ registry = [r \in Releases |-> "absent"]
    /\ cwd = <<>>
    /\ arg \in VersionStrings
    /\ ret = None
    /\ path = None
    /\ pc = "call"

ParseCall ==
    /\ pc = "call"
    /\ ret' = Version_parse(arg)
    /\ pc' = "returned"
    /\ UNCHANGED <<env, mainVars, arg, path>>

NextParse == ParseCall

SpecParse == InitParse /\ [][NextParse]_vars

InitResolver ==
    /\ NoLauncher
    /\ registry \in InstallRegistries
    /\ cwd = <<>>
    /\ arg \in Versions
    /\ ret = None
    /\ path = None
    /\ pc = "call"

ResolverCall ==
    /\ pc = "call"
    /\ ret' = pyver_to_mayaver(arg)
    /\ pc' = "returned"
    /\ UNCHANGED <<env, mainVars, arg, path>>

NextResolver == ResolverCall

SpecResolver == InitResolver /\ [][NextResolver]_vars

InitWalk ==
    /\ NoLauncher
    /\ registry = [r \in Releases |-> "absent"]
    /\ cwd \in WorkingDirs
    /\ arg \in RawPaths
    /\ ret = <<>>
    /\ path = None
    /\ pc = "call"

\* line 78: the generator starts
WalkCall ==
    /\ pc = "call"
    /\ path' = Resolve(arg)
    /\ ret' = <<>>
    /\ pc' = "yield"
    /\ UNCHANGED <<env, mainVars, arg>>

\* line 80
WalkYield ==
    /\ pc = "yield"
    /\ ret' = Append(ret, path)
    /\ pc' = "resumed"
    /\ UNCHANGED <<env, mainVars, arg, path>>

\* lines 82-84
WalkResume ==
    /\ pc = "resumed"
    /\ IF ParentIsPath(path)
       THEN pc' = "exhausted" /\ UNCHANGED path
       ELSE pc' = "yield" /\ path' = Parent(path)
    /\ UNCHANGED <<env, mainVars, arg, ret>>

\* parent_dirs is called again, with any path
WalkAgain ==
    /\ pc = "exhausted"
    /\ \E raw \in RawPaths : arg' = raw
    /\ pc' = "call"
    /\ UNCHANGED <<env, mainVars, ret, path>>

NextWalk ==
    \/ WalkCall
    \/ WalkYield
    \/ WalkResume
    \/ WalkAgain

SpecWalk == InitWalk /\ [][NextWalk]_vars

\* the consumer of the generator keeps asking for the next directory
FairSpecWalk == SpecWalk /\ WF_vars(WalkCall \/ WalkYield \/ WalkResume)

\* ------------------------------------------------------------------------
\* Properties
\* ------------------------------------------------------------------------
Resolvers == <<"py_version_from_shebang", "py_version_from_virtualenv",
               "py_version_from_python_version", "maya_version_from_maya_version",
               "latest_maya_version">>

Called(name) == \E i \in DOMAIN called : called[i] = name

\* the resolvers were called in the order of the two lists, none skipped
CalledInOrder == Len(called) <= Len(Resolvers) /\ called = SubSeq(Resolvers, 1, Len(called))

\* resolve_version is still running
Resolving == \E i \in DOMAIN Resolvers : pc = Resolvers[i]

\* resolve_version ended with an exception
ResolveRaised == pc = "raised" /\ error \in {"ValueError", "TypeError", "IndexError"}

\* the release a probe's answer leads to, None if it has no answer or no
\* installed match
ReleaseOf(result) ==
    IF result.exc = "none" /\ result.val # None
    THEN pyver_to_mayaver(result.val[1]).val
    ELSE None

FromVirtualenv == ReleaseOf(py_version_from_virtualenv)
FromPythonVersion == ReleaseOf(py_version_from_python_version(python_version_files))

\* the nearest upstream pin files, None if there is none
NearestPythonVersion == FirstFile(WalkFrom(cwd), python_version_files)
NearestMayaVersion == FirstFile(WalkFrom(cwd), maya_version_files)

\* the first line of a pin file as an integer; raises when the file is empty
\* or the line is no integer
FirstLineInt(text) ==
    IF splitlines(text) = <<>> THEN Raise("IndexError") ELSE int(splitlines(text)[1])

\* C1: pyver_to_mayaver(v) returns release r exactly when str(v) is a key of
\* the map, the map sends it to r and r is installed, and returns None in
\* every other case; a returned release never belongs to a key that differs
\* from v in major or minor.
C1_ExactKeyInstalled ==
    pc = "returned" =>
        LET hits == {r \in installed_maya_versions :
                        \E i \in DOMAIN py_to_maya_map :
                            /\ py_to_maya_map[i].key = Version_str(arg)
                            /\ py_to_maya_map[i].value = r}
        IN  /\ ret.exc = "none"
            /\ \A r \in Releases : (ret.val = Some(r)) <=> (r \in hits)
            /\ hits = {} => ret.val = None
            /\ \A i \in DOMAIN py_to_maya_map :
                   ret.val = Some(py_to_maya_map[i].value) =>
                       LET key == Version_parse(py_to_maya_map[i].key).val[1]
                       IN  key.major = arg.major /\ key.minor = arg.minor

C1_Witness ==
    /\ pc = "returned"
    /\ arg = Version(3, 9, 7)
    /\ ret = Return(Some(2023))

\* C2: chain A short-circuits: once the virtualenv probe or the
\* .python-version probe has yielded a Version that pyver_to_mayaver maps to
\* a release, resolve_version has returned that release and has called no
\* later resolver of chain A or chain B.
C2_ChainAShortCircuits ==
    LET fromVirtualenv == FromVirtualenv
        fromPythonVersion == FromPythonVersion
    IN  /\ CalledInOrder
        /\ (Called("py_version_from_virtualenv") /\ fromVirtualenv # None) =>
               /\ called = SubSeq(Resolvers, 1, 2)
               /\ ~Resolving
               /\ maya_version = fromVirtualenv
        /\ (Called("py_version_from_python_version") /\ fromPythonVersion # None) =>
               /\ called = SubSeq(Resolvers, 1, 3)
               /\ ~Resolving
               /\ maya_version = fromPythonVersion

C2_Witness ==
    /\ pc = "exited"
    /\ called = SubSeq(Resolvers, 1, 3)
    /\ maya_version = Some(2023)
    /\ FromPythonVersion = Some(2023)

\* C3: a failure inside a pin-file probe counts as "no answer": when the
\* nearest .python-version or .maya-version file is malformed or empty,
\* resolve_version does not abort but goes on to the next resolver.
C3_PinFailureContinues ==
    /\ (Called("py_version_from_python_version")
            /\ py_version_from_python_version(python_version_files).exc # "none") =>
           (pc = "maya_version_from_maya_version" \/ Called("maya_version_from_maya_version"))
    /\ (Called("maya_version_from_maya_version")
            /\ maya_version_from_maya_version(maya_version_files).exc # "none") =>
           (pc = "latest_maya_version" \/ Called("latest_maya_version"))

\* every probe comes up empty and nothing is installed
AllProbesEmpty ==
    /\ ~virtual_env
    /\ Called("py_version_from_python_version")
    /\ NearestPythonVersion = None
    /\ Called("maya_version_from_maya_version")
    /\ NearestMayaVersion = None
    /\ installed_maya_versions = {}

\* the first argument is an explicit override
Override == Len(argv) > 0 /\ int(argv[1]).exc = "none"

\* C4: when every probe comes up empty and no release is installed, the run
\* (given no override) ends in the error of main, "No valid mayapy version
\* were found", with nothing launched; and resolve_version returns no
\* release only then.
C4_ExhaustionIsTheOnlyFailure ==
    /\ (AllProbesEmpty /\ ~Override /\ pc \in {"raised", "exited"}) =>
           /\ error = "RuntimeError"
           /\ command = None
    /\ (~Resolving /\ ~ResolveRaised /\ maya_version = None) => AllProbesEmpty

\* C5: when the first argument is an integer n, the run ends having launched
\* release |n| with the remaining arguments, whatever the probes found.
C5_OverrideAlwaysLaunches ==
    (pc \in {"raised", "exited"} /\ Override) =>
        command = Some(<<PathStr(mayapy(abs(int(argv[1]).val)))>> \o Tail(argv))

\* a group of the pattern as an integer, 0 when the group is missing
GroupOrZero(g) == IF g = None THEN 0 ELSE DigitsToNat(g[1])

\* C6: Version.parse succeeds on every string that begins with an integer, a
\* missing minor or patch counting as 0, and fails with the invalid-version
\* error (ValueError) on every other string.
C6_ParseTotal ==
    pc = "returned" =>
        IF regex_match(arg) = None
        THEN ret = Raise("ValueError")
        ELSE ret = Return(Some(Version(GroupOrZero(regex_match(arg)[1].major),
                                       GroupOrZero(regex_match(arg)[1].minor),
                                       GroupOrZero(regex_match(arg)[1].patch))))

\* C7: no child process is started for a release whose install path cannot
\* be found.
C7_NoLaunchWithoutInstallPath ==
    command # None => maya_install_path(version[1]) # None

\* the ordering of the two chains: chain B runs only after every probe of
\* chain A has run without an installed match, the pin probe first
ChainBAfterChainA ==
    /\ CalledInOrder
    /\ Called("maya_version_from_maya_version") =>
           /\ py_version_from_virtualenv.exc = "none"
           /\ FromVirtualenv = None
           /\ py_version_from_python_version(python_version_files).exc = "none"
           /\ FromPythonVersion = None
    /\ (~Resolving /\ ~ResolveRaised /\ Called("latest_maya_version")) =>
           /\ NearestMayaVersion = None
           /\ maya_version = Some(SetMax(installed_maya_versions))

WalkYields ==
    LET start == Resolve(arg)
    IN  /\ Len(ret) <= Len(start) + 1
        /\ \A i \in DOMAIN ret : ret[i] = SubSeq(start, 1, Len(start) + 1 - i)
        /\ pc = "exhausted" =>
               /\ Len(ret) = Len(start) + 1
               /\ ret[1] = start
               /\ ret[Len(ret)] = <<>>
               /\ Cardinality({i \in DOMAIN ret : ret[i] = <<>>}) = 1

\* C9: every call of parent_dirs yields the resolved starting directory
\* first, then each parent in turn, the filesystem root last and once, and
\* then ends; a new call starts a fresh walk.
C9_WalkEndsAtRoot ==
    /\ [](pc \in {"yield", "resumed", "exhausted"} => WalkYields)
    /\ (pc = "call" ~> pc = "exhausted")

C9_Witness ==
    /\ pc = "exhausted"
    /\ arg = [absolute |-> FALSE, parts |-> <<"..", "b">>]
    /\ cwd = <<"a">>
    /\ ret = << <<"b">>, <<>> >>

\* C10: a release that resolve_version returns is installed.
C10_ReturnedIsInstalled ==
    maya_version # None => maya_version[1] \in installed_maya_versions

====
